---- MODULE Spec2Model ----
(***************************************************************************)
(* Model of the AiChat execution gateway (chat_executor.py: ChatExecutor)  *)
(* and of the WebSocket session (ws_client.py: WSClient).                  *)
(*                                                                         *)
(* Text is modelled as a sequence of characters, one token per character.  *)
(* An ASCII character is itself ("e"); a non-ASCII character is written by  *)
(* its code point ("U9519" is U+9519).                                     *)
(***************************************************************************)
EXTENDS Integers, Sequences, FiniteSets, TLC

(***************************************************************************)
(* Bounds of the model.                                                    *)
(***************************************************************************)
\* threads that each make one call into the gateway
NumCallers == 2
\* chat_config.MAX_WORKER_THREADS is a user-editable setting (10 as shipped);
\* the model runs the pool with this many workers, fewer than NumCallers, so
\* that submissions queue.
MAX_WORKER_THREADS == 1
\* WebSocketApp objects one connect() loop may create (connection attempts)
MaxApps == 2
\* calls of send() made by the sending thread
MaxSends == 1
\* calls of disconnect() made by the disconnecting thread
MaxDisconnects == 2
\* on_error notifications the transport delivers while a connection stays open
MaxMidErrors == 1
\* frames the peer sends over the life of the client
MaxFrames == 2
\* pieces a raw output given to the classifier is put together from
MaxPieces == 3
\* segments of the message of an inbound event
MaxSegments == 2

(***************************************************************************)
(* Text helpers (Python str / re semantics).                               *)
(***************************************************************************)
UpperLetters == <<"A","B","C","D","E","F","G","H","I","J","K","L","M",
                  "N","O","P","Q","R","S","T","U","V","W","X","Y","Z">>
LowerLetters == <<"a","b","c","d","e","f","g","h","i","j","k","l","m",
                  "n","o","p","q","r","s","t","u","v","w","x","y","z">>

\* str.lower() on one character
LowerChar(c) ==
    IF \E i \in 1..26 : UpperLetters[i] = c
    THEN LowerLetters[CHOOSE i \in 1..26 : UpperLetters[i] = c]
    ELSE c

\* str.lower()
Lower(s) == [i \in 1..Len(s) |-> LowerChar(s[i])]

IsSpace(c) == c \in {" ", "\n", "\t", "\r"}

\* str.strip()
Strip(s) ==
    IF \A i \in 1..Len(s) : IsSpace(s[i]) THEN <<>>
    ELSE LET first == CHOOSE i \in 1..Len(s) :
                         ~IsSpace(s[i]) /\ \A j \in 1..(i-1) : IsSpace(s[j])
             last  == CHOOSE i \in 1..Len(s) :
                         ~IsSpace(s[i]) /\ \A j \in (i+1)..Len(s) : IsSpace(s[j])
         IN SubSeq(s, first, last)

\* p occurs in s at position i
MatchAt(s, i, p) ==
    /\ i >= 1
    /\ i + Len(p) - 1 <= Len(s)
    /\ SubSeq(s, i, i + Len(p) - 1) = p

\* Python "p in s"
Contains(s, p) == \E i \in 1..(Len(s) + 1) : MatchAt(s, i, p)

DropFirst(s, n) == SubSeq(s, n + 1, Len(s))

ExecInfoStart == <<"<","E","x","e","c","u","t","i","o","n"," ","I","n","f","o",">">>
ExecInfoEnd   == <<"<","/","E","x","e","c","u","t","i","o","n"," ","I","n","f","o",">">>

\* EXECUTION_INFO_PATTERN.sub('', s):
\* r'<Execution Info>.*?</Execution Info>' with re.DOTALL; leftmost,
\* non-greedy, non-overlapping.
\* One step per match: the text before the leftmost opening marker that a
\* closing marker follows, then the substitution of what follows the first
\* such closing marker.
RECURSIVE ExecInfoSub(_)
ExecInfoSub(s) ==
    LET ends   == {j \in 1..Len(s) : MatchAt(s, j, ExecInfoEnd)}
        starts == {i \in 1..Len(s) :
                      /\ MatchAt(s, i, ExecInfoStart)
                      /\ \E j \in ends : j >= i + Len(ExecInfoStart)}
    IN IF starts = {} THEN s
       ELSE LET i == CHOOSE k \in starts : \A m \in starts : k <= m
                after == {j \in ends : j >= i + Len(ExecInfoStart)}
                j == CHOOSE k \in after : \A m \in after : k <= m
            IN SubSeq(s, 1, i - 1) \o ExecInfoSub(DropFirst(s, j + Len(ExecInfoEnd) - 1))

\* 'OAuth2 令牌刷新成功'
OAuth2Notice == <<"O","A","u","t","h","2"," ","U4EE4","U724C","U5237","U65B0","U6210","U529F">>

OAuth2NoticeLower == Lower(OAuth2Notice)

\* oauth2_pattern.sub('', s) with re.IGNORECASE
RECURSIVE OAuth2Sub(_)
OAuth2Sub(s) ==
    LET starts == {i \in 1..(Len(s) - Len(OAuth2Notice) + 1) :
                      \A k \in 1..Len(OAuth2Notice) :
                          LowerChar(s[i + k - 1]) = OAuth2NoticeLower[k]}
    IN IF starts = {} THEN s
       ELSE LET i == CHOOSE k \in starts : \A m \in starts : k <= m
            IN SubSeq(s, 1, i - 1) \o OAuth2Sub(DropFirst(s, i + Len(OAuth2Notice) - 1))

\* error_keywords = ['error', '错误', 'failed', '失败', 'exception', '异常']
error_keywords ==
    { <<"e","r","r","o","r">>,
      <<"U9519","U8BEF">>,
      <<"f","a","i","l","e","d">>,
      <<"U5931","U8D25">>,
      <<"e","x","c","e","p","t","i","o","n">>,
      <<"U5F02","U5E38">> }

\* any(kw in output.lower() for kw in error_keywords)
HasErrorKeyword(s) == LET low == Lower(s) IN \E kw \in error_keywords : Contains(low, kw)

(***************************************************************************)
(* ChatExecutor.friendly_responses; the Python list is indexed from 0, the *)
(* sequence here from 1: friendly_responses[k+1] is the Python element k.  *)
(***************************************************************************)
friendly_responses ==
    << \* "抱歉，我有些迷糊，能再说一遍吗？"
       <<"U62B1","U6B49","UFF0C","U6211","U6709","U4E9B","U8FF7","U7CCA","UFF0C",
         "U80FD","U518D","U8BF4","U4E00","U904D","U5417","UFF1F">>,
       \* "嗯... 刚才好像走神了，能重复一下吗？"
       <<"U55EF",".",".","."," ","U521A","U624D","U597D","U50CF","U8D70","U795E",
         "U4E86","UFF0C","U80FD","U91CD","U590D","U4E00","U4E0B","U5417","UFF1F">>,
       \* "我没太明白，换种说法试试？"
       <<"U6211","U6CA1","U592A","U660E","U767D","UFF0C","U6362","U79CD","U8BF4",
         "U6CD5","U8BD5","U8BD5","UFF1F">>,
       \* "抱歉，我没听清楚，能再说一次吗？"
       <<"U62B1","U6B49","UFF0C","U6211","U6CA1","U542C","U6E05","U695A","UFF0C",
         "U80FD","U518D","U8BF4","U4E00","U6B21","U5417","UFF1F">>,
       \* "这个问题有点复杂，我需要想想..."
       <<"U8FD9","U4E2A","U95EE","U9898","U6709","U70B9","U590D","U6742","UFF0C",
         "U6211","U9700","U8981","U60F3","U60F3",".",".",".">> >>

\* "AI命令未安装，请检查配置。"
NotFoundMessage ==
    <<"A","I","U547D","U4EE4","U672A","U5B89","U88C5","UFF0C","U8BF7","U68C0",
      "U67E5","U914D","U7F6E","U3002">>

\* "处理超时，请稍后再试。"
AsyncTimeoutMessage ==
    <<"U5904","U7406","U8D85","U65F6","UFF0C","U8BF7","U7A0D","U540E","U518D",
      "U8BD5","U3002">>

\* "抱歉，出了点问题，请重试。"
AsyncFailureMessage ==
    <<"U62B1","U6B49","UFF0C","U51FA","U4E86","U70B9","U95EE","U9898","UFF0C",
      "U8BF7","U91CD","U8BD5","U3002">>

(***************************************************************************)
(* ChatExecutor._call_ai and ChatExecutor.execute_chat as functions of the *)
(* outcome of the external command.  An outcome is a record                *)
(*   [kind |-> "ok", stdout |-> text]     the command ran                  *)
(*   [kind |-> "timeout" | "notfound" | "exception", stdout |-> <<>>]      *)
(*                                         subprocess.run raised           *)
(***************************************************************************)
\* result.stdout.strip()
call_ai(outcome) == Strip(outcome.stdout)

\* the two filters of execute_chat, lines 116-121
CleanOutput(output) == Strip(OAuth2Sub(Strip(ExecInfoSub(output))))

\* minimum length of a usable output (len(output) < 5)
MIN_OUTPUT_LEN == 5

\* the classification with the length tests before the keyword test
ClassifyOutput_LengthFirst(output) ==
    IF output = <<>>
    THEN [ret |-> friendly_responses[2], log |-> "EMPTY_OUTPUT"]
    ELSE IF Len(output) < MIN_OUTPUT_LEN
    THEN [ret |-> friendly_responses[3], log |-> "SHORT_OUTPUT"]
    ELSE IF HasErrorKeyword(output)
    THEN [ret |-> friendly_responses[1], log |-> "OUTPUT_ERROR"]
    ELSE [ret |-> output, log |-> ""]

\* the classification with `len(output) <= 5` as the short test
ClassifyOutput_ShortAtFive(output) ==
    IF HasErrorKeyword(output)
    THEN [ret |-> friendly_responses[1], log |-> "OUTPUT_ERROR"]
    ELSE IF output = <<>>
    THEN [ret |-> friendly_responses[2], log |-> "EMPTY_OUTPUT"]
    ELSE IF Len(output) <= MIN_OUTPUT_LEN
    THEN [ret |-> friendly_responses[3], log |-> "SHORT_OUTPUT"]
    ELSE [ret |-> output, log |-> ""]

\* lines 123-137: the value returned and the kind logged ("" when nothing is)
ClassifyOutput(output) ==
    IF HasErrorKeyword(output)
    THEN [ret |-> friendly_responses[1], log |-> "OUTPUT_ERROR"]
    ELSE IF output = <<>>
    THEN [ret |-> friendly_responses[2], log |-> "EMPTY_OUTPUT"]
    ELSE IF Len(output) < MIN_OUTPUT_LEN
    THEN [ret |-> friendly_responses[3], log |-> "SHORT_OUTPUT"]
    ELSE [ret |-> output, log |-> ""]

\* execute_chat with one handler, `except Exception`, for every failure of
\* the invocation
execute_chat_OneHandler(outcome) ==
    CASE outcome.kind = "ok"        -> ClassifyOutput(CleanOutput(call_ai(outcome)))
      [] outcome.kind = "timeout"   -> [ret |-> friendly_responses[1], log |-> "EXCEPTION"]
      [] outcome.kind = "notfound"  -> [ret |-> friendly_responses[1], log |-> "EXCEPTION"]
      [] outcome.kind = "exception" -> [ret |-> friendly_responses[1], log |-> "EXCEPTION"]

\* execute_chat, lines 113-147
execute_chat(outcome) ==
    CASE outcome.kind = "ok"        -> ClassifyOutput(CleanOutput(call_ai(outcome)))
      [] outcome.kind = "timeout"   -> [ret |-> friendly_responses[4], log |-> "TIMEOUT"]
      [] outcome.kind = "notfound"  -> [ret |-> NotFoundMessage, log |-> "NOT_FOUND"]
      [] outcome.kind = "exception" -> [ret |-> friendly_responses[1], log |-> "EXCEPTION"]

\* _log_error: the entries appended to the diagnostic log by one call
LogEntries(enabled, kind) == IF enabled /\ kind # "" THEN <<kind>> ELSE <<>>

(***************************************************************************)
(* Inputs of the gateway model.                                            *)
(***************************************************************************)
\* what the external command prints, one text per class of output
RawOutputs ==
    { <<>>,
      <<" ","h","i","\n">>,
      <<"h","e","l","l","o"," ","t","h","e","r","e">>,
      <<"E","r","r","o","r",":"," ","x">>,
      ExecInfoStart \o <<"t","=","1">> \o ExecInfoEnd \o <<"\n","g","o","o","d"," ","d","a","y">> }

Outcomes ==
    { [kind |-> "ok", stdout |-> o] : o \in RawOutputs }
    \cup { [kind |-> k, stdout |-> <<>>] : k \in {"timeout", "notfound", "exception"} }

\* the outcomes the gateway model draws from: a usable output, an output
\* with a failure keyword, and the failures of the invocation
ExecOutcomes ==
    { [kind |-> "ok", stdout |-> <<"h","e","l","l","o"," ","t","h","e","r","e">>],
      [kind |-> "ok", stdout |-> <<"E","r","r","o","r",":"," ","x">>],
      [kind |-> "timeout", stdout |-> <<>>],
      [kind |-> "notfound", stdout |-> <<>>] }

\* execute_chat on each of them
ExecResults == [o \in ExecOutcomes |-> execute_chat(o)]

\* the pieces raw outputs are put together from: a short word without a
\* failure keyword, a short failure keyword ('错误'), a failure keyword in
\* mixed case, a short text (also used as the content of a marked region),
\* a usable text of exactly MIN_OUTPUT_LEN characters, white space, the two
\* markers, and a start marker with the housekeeping notice inside it
Bad == <<"b","a","d">>
ShortKeyword == <<"U9519","U8BEF">>
MarkedContent == <<"t","=","1">>
Usable == <<"h","e","l","l","o">>
SplitStart ==
    <<"<","E","x","e","c","u","t","i","o","n"," ">> \o OAuth2Notice \o <<"I","n","f","o",">">>

Pieces ==
    { Bad, ShortKeyword, <<"E","r","r","o","r">>, MarkedContent, Usable, <<" ">>,
      ExecInfoStart, ExecInfoEnd, SplitStart }

\* the texts of at most n pieces
RECURSIVE PieceTexts(_)
PieceTexts(n) ==
    IF n = 0 THEN { <<>> }
    ELSE PieceTexts(n - 1) \cup { t \o q : t \in PieceTexts(n - 1), q \in Pieces }

\* the outcomes the classifier model draws from; a failed invocation may
\* have printed something before it failed
ClassifyOutcomes ==
    Outcomes
    \cup { [kind |-> "ok", stdout |-> t] : t \in PieceTexts(MaxPieces) }
    \cup { [kind |-> k, stdout |-> <<"E","r","r","o","r">>] :
              k \in {"timeout", "notfound", "exception"} }

\* the outcomes that cannot be told from the result of the call alone
\* (failed invocations, and one output per class): these are also run
\* without diagnostic logging
UnloggedOutcomes ==
    Outcomes
    \cup { [kind |-> k, stdout |-> <<"E","r","r","o","r">>] :
              k \in {"timeout", "notfound", "exception"} }

NoOutcome == [kind |-> "none", stdout |-> <<>>]
NoClassification == [ret |-> <<>>, log |-> ""]

\* what a callback does when invoked: return, raise an Exception, or raise
\* concurrent.futures.TimeoutError
CallbackBehaviours == {"return", "raise", "raise_timeout"}

Callers == 1..NumCallers
Workers == 1..MAX_WORKER_THREADS
NoResult == [done |-> FALSE, value |-> <<>>]

VARIABLES
    \* ---- ChatExecutor ----
    debug_log,      \* DEBUG_LOG_PATH is set
    pool_shutdown,  \* ThreadPoolExecutor._shutdown
    work_queue,     \* ThreadPoolExecutor._work_queue: submitted, not started
    worker,         \* worker[w]: the call whose unit of work w runs, 0 if idle
    future,         \* future[c]: the Future of call c
    pc,             \* pc[c]: where caller c is
    returned,       \* returned[c]: what execute_chat returned to caller c
    escaped,        \* escaped[c]: an exception reached caller c
    cb_log,         \* cb_log[c]: the callback invocations of call c, in order
    err_log,        \* err_log[c]: diagnostic entries written for call c
    cl_pc,          \* the single-call run of execute_chat: "idle", "called", "again"
    cl_in,          \* the outcome of the external command in that run
    cl_out,         \* what execute_chat returned and the kind it logged
    cl_log,         \* the diagnostic entries that run wrote
    cl_again,       \* execute_chat on a command that prints cl_out.ret
    \* ---- WSClient ----
    ws,             \* self.ws: 0 is None, a > 0 is the a-th WebSocketApp created
    connected,      \* self.connected
    should_stop,    \* self._should_stop
    lock,           \* holder of self._lock: "free", "conn", "send" or "disc"
    sock,           \* sock[a]: transport of app a: "none", "open" or "closed"
    app_created,    \* number of WebSocketApp objects created so far
    conn_pc,        \* where the thread running connect() is
    after_error,    \* what follows the _on_error in progress: "running" or "close"
    mid_errors,     \* on_error notifications delivered while a connection stayed open
    on_connect_calls,     \* invocations of the on_connect callback
    on_disconnect_calls,  \* invocations of the on_disconnect callback
    on_error_calls,       \* invocations of the on_error callback
    send_pc,        \* where the thread calling send() is
    sends,          \* calls of send() started
    send_ret,       \* what the last call of send() returned: "none", "true", "false"
    frames_written, \* frames the current/last call of send() wrote to the transport
    conn_at_write,  \* self.connected when the locked section of send() ran
    disc_pc,        \* where the thread calling disconnect() is
    disc_calls,     \* calls of disconnect() completed
    disc_raised,    \* a call of disconnect() raised
    inbox,          \* frames that arrived on a transport and are not yet read
    frames_arrived, \* number of frames that have arrived so far
    cur_frame,      \* the frame _on_message is handling, NoFrame if none
    handlers_active,\* invocations of the message handler in progress
    msg_log,        \* what _on_message did, in order: "recv", "handler", "nonjson"
    \* ---- run.py ----
    rx_pc,          \* the message handler of run.py: "idle" or "done"
    rx_in,          \* the event it was called with
    rx_out          \* what it did with the event

cl_vars == <<cl_pc, cl_in, cl_out, cl_log, cl_again>>

exec_vars == <<debug_log, pool_shutdown, work_queue, worker, future, pc,
               returned, escaped, cb_log, err_log,
               cl_pc, cl_in, cl_out, cl_log, cl_again>>

ws_vars == <<ws, connected, should_stop, lock, sock, app_created, conn_pc,
             after_error, mid_errors, on_connect_calls, on_disconnect_calls,
             on_error_calls, send_pc, sends, send_ret, frames_written,
             conn_at_write, disc_pc, disc_calls, disc_raised,
             inbox, frames_arrived, cur_frame, handlers_active, msg_log>>

rx_vars == <<rx_pc, rx_in, rx_out>>

vars == <<exec_vars, ws_vars, rx_vars>>

\* ChatExecutor.__init__ with DEBUG_LOG_PATH set or not, and the outcome the
\* single-call run will meet
GatewayInit(logging, outcome) ==
    /\ debug_log = logging
    /\ pool_shutdown = FALSE
    /\ work_queue = <<>>
    /\ worker = [w \in Workers |-> 0]
    /\ future = [c \in Callers |-> NoResult]
    /\ pc = [c \in Callers |-> "idle"]
    /\ returned = [c \in Callers |-> <<>>]
    /\ escaped = [c \in Callers |-> FALSE]
    /\ cb_log = [c \in Callers |-> <<>>]
    /\ err_log = [c \in Callers |-> <<>>]
    /\ cl_pc = "idle"
    /\ cl_in = outcome
    /\ cl_out = NoClassification
    /\ cl_log = <<>>
    /\ cl_again = NoClassification

\* chat_config.DEBUG_LOG_PATH = None as shipped
ExecInit == GatewayInit(FALSE, NoOutcome)

\* a caller thread calls execute_chat directly
SyncCall(c, outcome) ==
    /\ pc[c] = "idle"
    /\ LET r == ExecResults[outcome] IN
        /\ returned' = [returned EXCEPT ![c] = r.ret]
        /\ err_log' = [err_log EXCEPT ![c] = @ \o LogEntries(debug_log, r.log)]
    /\ pc' = [pc EXCEPT ![c] = "sync_done"]
    /\ UNCHANGED <<debug_log, pool_shutdown, work_queue, worker, future, escaped, cb_log,
                   ws_vars, rx_vars, cl_vars>>

\* a caller thread calls execute_chat directly: _call_ai starts the external
\* command on that thread (subprocess.run, lines 75-81)
SyncBegin(c) ==
    /\ pc[c] = "idle"
    /\ pc' = [pc EXCEPT ![c] = "sync_run"]
    /\ UNCHANGED <<debug_log, pool_shutdown, work_queue, worker, future, returned, escaped,
                   cb_log, err_log,
                   ws_vars, rx_vars, cl_vars>>

\* the external command of a direct call ends and execute_chat returns
SyncEnd(c, outcome) ==
    /\ pc[c] = "sync_run"
    /\ LET r == ExecResults[outcome] IN
        /\ returned' = [returned EXCEPT ![c] = r.ret]
        /\ err_log' = [err_log EXCEPT ![c] = @ \o LogEntries(debug_log, r.log)]
    /\ pc' = [pc EXCEPT ![c] = "sync_done"]
    /\ UNCHANGED <<debug_log, pool_shutdown, work_queue, worker, future, escaped, cb_log,
                   ws_vars, rx_vars, cl_vars>>

\* submit that refuses the work when every pool thread is busy
Submit_RejectsWhenBusy(c) ==
    /\ pc[c] = "idle"
    /\ IF pool_shutdown \/ \A w \in Workers : worker[w] # 0
       THEN /\ escaped' = [escaped EXCEPT ![c] = TRUE]
            /\ pc' = [pc EXCEPT ![c] = "async_done"]
            /\ UNCHANGED work_queue
       ELSE /\ work_queue' = Append(work_queue, c)
            /\ pc' = [pc EXCEPT ![c] = "wait"]
            /\ UNCHANGED escaped
    /\ UNCHANGED <<debug_log, pool_shutdown, worker, future, returned, cb_log, err_log,
                   ws_vars, rx_vars, cl_vars>>

\* execute_chat_async line 158: self.executor.submit(...), outside the try
Submit(c) ==
    /\ pc[c] = "idle"
    /\ IF pool_shutdown
       THEN \* submit raises RuntimeError; nothing catches it
            /\ escaped' = [escaped EXCEPT ![c] = TRUE]
            /\ pc' = [pc EXCEPT ![c] = "async_done"]
            /\ UNCHANGED work_queue
       ELSE /\ work_queue' = Append(work_queue, c)
            /\ pc' = [pc EXCEPT ![c] = "wait"]
            /\ UNCHANGED escaped
    /\ UNCHANGED <<debug_log, pool_shutdown, worker, future, returned, cb_log, err_log,
                   ws_vars, rx_vars, cl_vars>>

\* a pool thread takes the oldest queued unit of work
WorkerStart(w) ==
    /\ worker[w] = 0
    /\ work_queue # <<>>
    /\ worker' = [worker EXCEPT ![w] = Head(work_queue)]
    /\ work_queue' = Tail(work_queue)
    /\ UNCHANGED <<debug_log, pool_shutdown, future, pc, returned, escaped, cb_log, err_log,
                   ws_vars, rx_vars, cl_vars>>

\* the pool thread finishes execute_chat and sets the future's result
WorkerFinish(w, outcome) ==
    /\ worker[w] # 0
    /\ LET c == worker[w]
           r == ExecResults[outcome]
       IN /\ future' = [future EXCEPT ![c] = [done |-> TRUE, value |-> r.ret]]
          /\ err_log' = [err_log EXCEPT ![c] = @ \o LogEntries(debug_log, r.log)]
    /\ worker' = [worker EXCEPT ![w] = 0]
    /\ UNCHANGED <<debug_log, pool_shutdown, work_queue, pc, returned, escaped, cb_log,
                   ws_vars, rx_vars, cl_vars>>

\* one invocation of the callback, made by caller thread c
Invocation(c, arg) == [arg |-> arg, by |-> <<"caller", c>>]

\* line 160-161: future.result returns and the callback is called in the try
ResultReady(c, b) ==
    /\ pc[c] = "wait"
    /\ future[c].done
    /\ cb_log' = [cb_log EXCEPT ![c] = Append(@, Invocation(c, future[c].value))]
    /\ pc' = [pc EXCEPT ![c] = CASE b = "return"        -> "async_done"
                                 [] b = "raise"         -> "except_exception"
                                 [] b = "raise_timeout" -> "except_timeout"]
    /\ UNCHANGED <<debug_log, pool_shutdown, work_queue, worker, future, returned, escaped, err_log,
                   ws_vars, rx_vars, cl_vars>>

\* line 160: future.result(timeout=self.timeout) raises FutureTimeoutError
WaitTimeout(c) ==
    /\ pc[c] = "wait"
    /\ ~future[c].done
    /\ pc' = [pc EXCEPT ![c] = "except_timeout"]
    /\ UNCHANGED <<debug_log, pool_shutdown, work_queue, worker, future, returned, escaped, cb_log, err_log,
                   ws_vars, rx_vars, cl_vars>>

\* lines 162-163 passing the TIMEOUT fallback of execute_chat
ExceptTimeout_SyncFallback(c, b) ==
    /\ pc[c] = "except_timeout"
    /\ cb_log' = [cb_log EXCEPT ![c] = Append(@, Invocation(c, friendly_responses[4]))]
    /\ escaped' = [escaped EXCEPT ![c] = (b # "return")]
    /\ pc' = [pc EXCEPT ![c] = "async_done"]
    /\ UNCHANGED <<debug_log, pool_shutdown, work_queue, worker, future, returned, err_log,
                   ws_vars, rx_vars, cl_vars>>

\* lines 162-163: except FutureTimeoutError: callback(...)
ExceptTimeout(c, b) ==
    /\ pc[c] = "except_timeout"
    /\ cb_log' = [cb_log EXCEPT ![c] = Append(@, Invocation(c, AsyncTimeoutMessage))]
    /\ escaped' = [escaped EXCEPT ![c] = (b # "return")]
    /\ pc' = [pc EXCEPT ![c] = "async_done"]
    /\ UNCHANGED <<debug_log, pool_shutdown, work_queue, worker, future, returned, err_log,
                   ws_vars, rx_vars, cl_vars>>

\* lines 164-165: except Exception: callback(...)
ExceptException(c, b) ==
    /\ pc[c] = "except_exception"
    /\ cb_log' = [cb_log EXCEPT ![c] = Append(@, Invocation(c, AsyncFailureMessage))]
    /\ escaped' = [escaped EXCEPT ![c] = (b # "return")]
    /\ pc' = [pc EXCEPT ![c] = "async_done"]
    /\ UNCHANGED <<debug_log, pool_shutdown, work_queue, worker, future, returned, err_log,
                   ws_vars, rx_vars, cl_vars>>

\* the units of work that pool threads are running
Running == {worker[w] : w \in Workers} \ {0}

\* shutdown() that cancels the work in progress
Shutdown_Cancels ==
    /\ ~pool_shutdown
    /\ pool_shutdown' = TRUE
    /\ worker' = [w \in Workers |-> 0]
    /\ work_queue' = <<>>
    /\ UNCHANGED <<debug_log, future, pc, returned, escaped, cb_log, err_log,
                   ws_vars, rx_vars, cl_vars>>

\* shutdown(): self.executor.shutdown(wait=False) sets the pool's flag and
\* returns; queued and running work is left to the pool threads
Shutdown ==
    /\ ~pool_shutdown
    /\ pool_shutdown' = TRUE
    /\ UNCHANGED <<debug_log, work_queue, worker, future, pc, returned, escaped, cb_log, err_log,
                   ws_vars, rx_vars, cl_vars>>

\* one call of execute_chat(prompt, user_id) whose external command has the
\* outcome cl_in: the value returned and what _log_error wrote
Classify ==
    /\ cl_pc = "idle"
    /\ cl_in # NoOutcome
    /\ LET r == execute_chat(cl_in) IN
        /\ cl_out' = r
        /\ cl_log' = cl_log \o LogEntries(debug_log, r.log)
    /\ cl_pc' = "called"
    /\ UNCHANGED <<debug_log, pool_shutdown, work_queue, worker, future, pc, returned,
                   escaped, cb_log, err_log, cl_in, cl_again,
                   ws_vars, rx_vars>>

\* execute_chat once more, the external command printing what the first
\* call returned
ClassifyAgain ==
    /\ cl_pc = "called"
    /\ cl_again' = execute_chat([kind |-> "ok", stdout |-> cl_out.ret])
    /\ cl_pc' = "again"
    /\ UNCHANGED <<debug_log, pool_shutdown, work_queue, worker, future, pc, returned,
                   escaped, cb_log, err_log, cl_in, cl_out, cl_log,
                   ws_vars, rx_vars>>

ClassifyNext == Classify \/ ClassifyAgain

ExecNext ==
    \/ \E c \in Callers, o \in ExecOutcomes : SyncCall(c, o)
    \/ \E c \in Callers : Submit(c)
    \/ \E w \in Workers : WorkerStart(w)
    \/ \E w \in Workers, o \in ExecOutcomes : WorkerFinish(w, o)
    \/ \E c \in Callers, b \in CallbackBehaviours : ResultReady(c, b)
    \/ \E c \in Callers : WaitTimeout(c)
    \/ \E c \in Callers, b \in CallbackBehaviours : ExceptTimeout(c, b)
    \/ \E c \in Callers, b \in CallbackBehaviours : ExceptException(c, b)
    \/ Shutdown

(***************************************************************************)
(* WSClient.  Three threads use one client: the thread running connect()   *)
(* (run_forever calls _on_open, _on_error and _on_close on it), a thread   *)
(* calling send(), and a thread calling disconnect().  A `with self._lock` *)
(* block is two steps: acquiring the lock, then the body with the release. *)
(***************************************************************************)
Apps == 1..MaxApps

conn_local == <<app_created, conn_pc, after_error, mid_errors, on_connect_calls,
                on_disconnect_calls, on_error_calls>>
send_local == <<send_pc, sends, send_ret, frames_written, conn_at_write>>
disc_local == <<disc_pc, disc_calls, disc_raised>>
msg_vars   == <<inbox, frames_arrived, cur_frame, handlers_active, msg_log>>

\* no frame is being handled
NoFrame == [id |-> 0, app |-> 0, kind |-> "none"]

\* __init__, lines 46-49
WSInit ==
    /\ ws = 0
    /\ connected = FALSE
    /\ should_stop = FALSE
    /\ lock = "free"
    /\ sock = [a \in Apps |-> "none"]
    /\ app_created = 0
    /\ conn_pc = "idle"
    /\ after_error = "running"
    /\ mid_errors = 0
    /\ on_connect_calls = 0
    /\ on_disconnect_calls = 0
    /\ on_error_calls = 0
    /\ send_pc = "idle"
    /\ sends = 0
    /\ send_ret = "none"
    /\ frames_written = 0
    /\ conn_at_write = FALSE
    /\ disc_pc = "idle"
    /\ disc_calls = 0
    /\ disc_raised = FALSE
    /\ inbox = <<>>
    /\ frames_arrived = 0
    /\ cur_frame = NoFrame
    /\ handlers_active = 0
    /\ msg_log = <<>>

\* the loop ignores the stop flag
LoopContinues_Always(stop) == TRUE

\* `while not self._should_stop` (line 147), `if not self._should_stop` (line 167)
LoopContinues(stop) == ~stop

\* a thread calls connect(); the headers are built (lines 143-145)
Connect ==
    /\ conn_pc = "idle"
    /\ conn_pc' = "while"
    /\ UNCHANGED <<ws, connected, should_stop, lock, sock, app_created, after_error,
                   mid_errors, on_connect_calls, on_disconnect_calls, on_error_calls,
                   send_local, disc_local,
                   exec_vars, rx_vars, msg_vars>>

\* line 147: the loop test
WhileCheck ==
    /\ conn_pc = "while"
    /\ IF LoopContinues(should_stop)
       THEN app_created < MaxApps /\ conn_pc' = "create"
       ELSE conn_pc' = "returned"
    /\ UNCHANGED <<ws, connected, should_stop, lock, sock, app_created, after_error,
                   mid_errors, on_connect_calls, on_disconnect_calls, on_error_calls,
                   send_local, disc_local,
                   exec_vars, rx_vars, msg_vars>>

\* lines 151-158: self.ws = websocket.WebSocketApp(...), without the lock
CreateApp ==
    /\ conn_pc = "create"
    /\ app_created' = app_created + 1
    /\ ws' = app_created + 1
    /\ conn_pc' = "run"
    /\ UNCHANGED <<connected, should_stop, lock, sock, after_error, mid_errors,
                   on_connect_calls, on_disconnect_calls, on_error_calls,
                   send_local, disc_local,
                   exec_vars, rx_vars, msg_vars>>

\* line 161: run_forever opens the transport and will call _on_open.  A
\* close() made on the app before run_forever started does not prevent it.
RunForeverOpens ==
    /\ conn_pc = "run"
    /\ sock' = [sock EXCEPT ![app_created] = "open"]
    /\ conn_pc' = "open_acq"
    /\ UNCHANGED <<ws, connected, should_stop, lock, app_created, after_error,
                   mid_errors, on_connect_calls, on_disconnect_calls, on_error_calls,
                   send_local, disc_local,
                   exec_vars, rx_vars, msg_vars>>

\* line 161: run_forever fails to open the transport: it calls _on_error and
\* then _on_close
RunForeverFails ==
    /\ conn_pc = "run"
    /\ after_error' = "close"
    /\ conn_pc' = "error_acq"
    /\ UNCHANGED <<ws, connected, should_stop, lock, sock, app_created, mid_errors,
                   on_connect_calls, on_disconnect_calls, on_error_calls,
                   send_local, disc_local,
                   exec_vars, rx_vars, msg_vars>>

\* lines 148-164: something in the try block raises; the except clause prints
RunForeverRaises ==
    /\ conn_pc = "run"
    /\ conn_pc' = "after_run"
    /\ UNCHANGED <<ws, connected, should_stop, lock, sock, app_created, after_error,
                   mid_errors, on_connect_calls, on_disconnect_calls, on_error_calls,
                   send_local, disc_local,
                   exec_vars, rx_vars, msg_vars>>

\* _on_open, line 58: with self._lock
OnOpenAcquire ==
    /\ conn_pc = "open_acq"
    /\ lock = "free"
    /\ lock' = "conn"
    /\ conn_pc' = "open_body"
    /\ UNCHANGED <<ws, connected, should_stop, sock, app_created, after_error,
                   mid_errors, on_connect_calls, on_disconnect_calls, on_error_calls,
                   send_local, disc_local,
                   exec_vars, rx_vars, msg_vars>>

\* _on_open without `self.connected = True`
OnOpenBody_NotConnected ==
    /\ conn_pc = "open_body"
    /\ ws' = app_created
    /\ lock' = "free"
    /\ conn_pc' = "open_cb"
    /\ UNCHANGED <<connected, should_stop, sock, app_created, after_error, mid_errors,
                   on_connect_calls, on_disconnect_calls, on_error_calls,
                   send_local, disc_local,
                   exec_vars, rx_vars, msg_vars>>

\* _on_open, lines 59-60
OnOpenBody ==
    /\ conn_pc = "open_body"
    /\ connected' = TRUE
    /\ ws' = app_created
    /\ lock' = "free"
    /\ conn_pc' = "open_cb"
    /\ UNCHANGED <<should_stop, sock, app_created, after_error, mid_errors,
                   on_connect_calls, on_disconnect_calls, on_error_calls,
                   send_local, disc_local,
                   exec_vars, rx_vars, msg_vars>>

\* _on_open, lines 61-63: self.on_connect()
OnOpenCallback ==
    /\ conn_pc = "open_cb"
    /\ on_connect_calls' = on_connect_calls + 1
    /\ conn_pc' = "running"
    /\ UNCHANGED <<ws, connected, should_stop, lock, sock, app_created, after_error,
                   mid_errors, on_disconnect_calls, on_error_calls,
                   send_local, disc_local,
                   exec_vars, rx_vars, msg_vars>>

\* the transport reports an error on a connection that stays open (the
\* library reports a fault of a user callback this way)
MidError ==
    /\ conn_pc = "running"
    /\ mid_errors < MaxMidErrors
    /\ mid_errors' = mid_errors + 1
    /\ after_error' = "running"
    /\ conn_pc' = "error_acq"
    /\ UNCHANGED <<ws, connected, should_stop, lock, sock, app_created,
                   on_connect_calls, on_disconnect_calls, on_error_calls,
                   send_local, disc_local,
                   exec_vars, rx_vars, msg_vars>>

\* the connection ends cleanly (the peer closes it, or close() was called on
\* the app): run_forever calls _on_close; frames not yet read are lost with
\* the transport
TransportCloses ==
    /\ conn_pc = "running"
    /\ sock' = [sock EXCEPT ![app_created] = "closed"]
    /\ inbox' = <<>>
    /\ conn_pc' = "close_acq"
    /\ UNCHANGED <<ws, connected, should_stop, lock, app_created, after_error,
                   mid_errors, on_connect_calls, on_disconnect_calls, on_error_calls,
                   send_local, disc_local,
                   exec_vars, rx_vars,
                   frames_arrived, cur_frame, handlers_active, msg_log>>

\* the connection breaks: run_forever calls _on_error and then _on_close
TransportBreaks ==
    /\ conn_pc = "running"
    /\ sock' = [sock EXCEPT ![app_created] = "closed"]
    /\ after_error' = "close"
    /\ inbox' = <<>>
    /\ conn_pc' = "error_acq"
    /\ UNCHANGED <<ws, connected, should_stop, lock, app_created, mid_errors,
                   on_connect_calls, on_disconnect_calls, on_error_calls,
                   send_local, disc_local,
                   exec_vars, rx_vars,
                   frames_arrived, cur_frame, handlers_active, msg_log>>

\* _on_error, line 77: with self._lock
OnErrorAcquire ==
    /\ conn_pc = "error_acq"
    /\ lock = "free"
    /\ lock' = "conn"
    /\ conn_pc' = "error_body"
    /\ UNCHANGED <<ws, connected, should_stop, sock, app_created, after_error,
                   mid_errors, on_connect_calls, on_disconnect_calls, on_error_calls,
                   send_local, disc_local,
                   exec_vars, rx_vars, msg_vars>>

\* _on_error, line 78
OnErrorBody ==
    /\ conn_pc = "error_body"
    /\ connected' = FALSE
    /\ lock' = "free"
    /\ conn_pc' = "error_cb"
    /\ UNCHANGED <<ws, should_stop, sock, app_created, after_error, mid_errors,
                   on_connect_calls, on_disconnect_calls, on_error_calls,
                   send_local, disc_local,
                   exec_vars, rx_vars, msg_vars>>

\* _on_error, lines 79-80: self.on_error(error)
OnErrorCallback ==
    /\ conn_pc = "error_cb"
    /\ on_error_calls' = on_error_calls + 1
    /\ conn_pc' = IF after_error = "running" THEN "running" ELSE "close_acq"
    /\ UNCHANGED <<ws, connected, should_stop, lock, sock, app_created, after_error,
                   mid_errors, on_connect_calls, on_disconnect_calls,
                   send_local, disc_local,
                   exec_vars, rx_vars, msg_vars>>

\* _on_close, line 85: with self._lock
OnCloseAcquire ==
    /\ conn_pc = "close_acq"
    /\ lock = "free"
    /\ lock' = "conn"
    /\ conn_pc' = "close_body"
    /\ UNCHANGED <<ws, connected, should_stop, sock, app_created, after_error,
                   mid_errors, on_connect_calls, on_disconnect_calls, on_error_calls,
                   send_local, disc_local,
                   exec_vars, rx_vars, msg_vars>>

\* _on_close without `self.connected = False`
OnCloseBody_KeepsConnected ==
    /\ conn_pc = "close_body"
    /\ ws' = 0
    /\ lock' = "free"
    /\ conn_pc' = "close_cb"
    /\ UNCHANGED <<connected, should_stop, sock, app_created, after_error, mid_errors,
                   on_connect_calls, on_disconnect_calls, on_error_calls,
                   send_local, disc_local,
                   exec_vars, rx_vars, msg_vars>>

\* _on_close, lines 86-87
OnCloseBody ==
    /\ conn_pc = "close_body"
    /\ connected' = FALSE
    /\ ws' = 0
    /\ lock' = "free"
    /\ conn_pc' = "close_cb"
    /\ UNCHANGED <<should_stop, sock, app_created, after_error, mid_errors,
                   on_connect_calls, on_disconnect_calls, on_error_calls,
                   send_local, disc_local,
                   exec_vars, rx_vars, msg_vars>>

\* _on_close, lines 88-89: self.on_disconnect(); run_forever returns
OnCloseCallback ==
    /\ conn_pc = "close_cb"
    /\ on_disconnect_calls' = on_disconnect_calls + 1
    /\ conn_pc' = "after_run"
    /\ UNCHANGED <<ws, connected, should_stop, lock, sock, app_created, after_error,
                   mid_errors, on_connect_calls, on_error_calls,
                   send_local, disc_local,
                   exec_vars, rx_vars, msg_vars>>

\* line 167: if not self._should_stop
AfterRun ==
    /\ conn_pc = "after_run"
    /\ conn_pc' = IF LoopContinues(should_stop) THEN "sleep" ELSE "while"
    /\ UNCHANGED <<ws, connected, should_stop, lock, sock, app_created, after_error,
                   mid_errors, on_connect_calls, on_disconnect_calls, on_error_calls,
                   send_local, disc_local,
                   exec_vars, rx_vars, msg_vars>>

\* lines 168-170: time.sleep(reconnect_delay) returns
Sleep ==
    /\ conn_pc = "sleep"
    /\ conn_pc' = "while"
    /\ UNCHANGED <<ws, connected, should_stop, lock, sock, app_created, after_error,
                   mid_errors, on_connect_calls, on_disconnect_calls, on_error_calls,
                   send_local, disc_local,
                   exec_vars, rx_vars, msg_vars>>

\* a thread calls send(data)
SendCall ==
    /\ send_pc = "idle"
    /\ sends < MaxSends
    /\ sends' = sends + 1
    /\ send_ret' = "none"
    /\ frames_written' = 0
    /\ conn_at_write' = FALSE
    /\ send_pc' = "isconn_acq"
    /\ UNCHANGED <<ws, connected, should_stop, lock, sock, conn_local, disc_local,
                   exec_vars, rx_vars, msg_vars>>

\* send line 101 -> is_connected, line 53: with self._lock
IsConnectedAcquire ==
    /\ send_pc = "isconn_acq"
    /\ lock = "free"
    /\ lock' = "send"
    /\ send_pc' = "isconn_body"
    /\ UNCHANGED <<ws, connected, should_stop, sock, conn_local, disc_local,
                   sends, send_ret, frames_written, conn_at_write,
                   exec_vars, rx_vars, msg_vars>>

\* is_connected line 54 and send lines 101-103
IsConnectedBody ==
    /\ send_pc = "isconn_body"
    /\ lock' = "free"
    /\ IF connected
       THEN send_pc' = "send_acq" /\ UNCHANGED send_ret
       ELSE send_pc' = "idle" /\ send_ret' = "false"
    /\ UNCHANGED <<ws, connected, should_stop, sock, conn_local, disc_local,
                   sends, frames_written, conn_at_write,
                   exec_vars, rx_vars, msg_vars>>

\* send line 106: with self._lock
SendAcquire ==
    /\ send_pc = "send_acq"
    /\ lock = "free"
    /\ lock' = "send"
    /\ send_pc' = "send_body"
    /\ UNCHANGED <<ws, connected, should_stop, sock, conn_local, disc_local,
                   sends, send_ret, frames_written, conn_at_write,
                   exec_vars, rx_vars, msg_vars>>

\* send lines 107-112.  accepted: the transport takes the frame when it is
\* open; self.ws.send raises when it is not open or does not take the frame.
SendBody(accepted) ==
    /\ send_pc = "send_body"
    /\ conn_at_write' = connected
    /\ IF ws # 0
       THEN IF sock[ws] = "open" /\ accepted
            THEN frames_written' = frames_written + 1 /\ send_ret' = "true"
            ELSE UNCHANGED frames_written /\ send_ret' = "false"
       ELSE UNCHANGED frames_written /\ send_ret' = "true"
    /\ lock' = "free"
    /\ send_pc' = "idle"
    /\ UNCHANGED <<ws, connected, should_stop, sock, conn_local, disc_local, sends,
                   exec_vars, rx_vars, msg_vars>>

\* WebSocketApp.close() on app a
close_app(sk, a) == [sk EXCEPT ![a] = IF @ = "open" THEN "closed" ELSE @]

\* the fields of the client that disconnect() reads or writes
ClientState ==
    [should_stop |-> should_stop, connected |-> connected, ws |-> ws, sock |-> sock]

\* disconnect() when closing a handle whose transport is not open raises
\* (the exception leaves the `with` block before `self.connected = False`)
disconnect_CloseRaises(st) ==
    IF st.ws # 0 /\ st.sock[st.ws] # "open"
    THEN [should_stop |-> TRUE, connected |-> st.connected, ws |-> st.ws,
          sock |-> st.sock, raised |-> TRUE]
    ELSE [should_stop |-> TRUE, connected |-> FALSE, ws |-> st.ws,
          sock |-> IF st.ws # 0 THEN close_app(st.sock, st.ws) ELSE st.sock,
          raised |-> FALSE]

\* disconnect(), lines 174-178, run from state st without interruption:
\* the state it leaves and whether it raised
disconnect(st) ==
    [should_stop |-> TRUE,
     connected   |-> FALSE,
     ws          |-> st.ws,
     sock        |-> IF st.ws # 0 THEN close_app(st.sock, st.ws) ELSE st.sock,
     raised      |-> FALSE]

\* disconnect line 174: self._should_stop = True
DisconnectCall ==
    /\ disc_pc = "idle"
    /\ disc_calls < MaxDisconnects
    /\ should_stop' = disconnect(ClientState).should_stop
    /\ disc_pc' = "acq"
    /\ UNCHANGED <<ws, connected, lock, sock, conn_local, send_local,
                   disc_calls, disc_raised,
                   exec_vars, rx_vars, msg_vars>>

\* disconnect line 175: with self._lock
DisconnectAcquire ==
    /\ disc_pc = "acq"
    /\ lock = "free"
    /\ lock' = "disc"
    /\ disc_pc' = "body"
    /\ UNCHANGED <<ws, connected, should_stop, sock, conn_local, send_local,
                   disc_calls, disc_raised,
                   exec_vars, rx_vars, msg_vars>>

\* disconnect lines 176-179
DisconnectBody ==
    /\ disc_pc = "body"
    /\ LET r == disconnect(ClientState) IN
        /\ disc_raised' = (disc_raised \/ r.raised)
        /\ IF r.raised
           THEN UNCHANGED <<sock, connected>>
           ELSE sock' = r.sock /\ connected' = r.connected
    /\ lock' = "free"
    /\ disc_calls' = disc_calls + 1
    /\ disc_pc' = "idle"
    /\ UNCHANGED <<ws, should_stop, conn_local, send_local,
                   exec_vars, rx_vars, msg_vars>>

(***************************************************************************)
(* Inbound frames.  run_forever reads the transport and calls _on_message  *)
(* on the thread running connect(), one frame per call.                    *)
(***************************************************************************)
\* what the peer sends: a JSON text or a text json.loads rejects
FrameKinds == {"json", "malformed"}

\* what the registered handler does with a frame: return, raise
\* json.JSONDecodeError (a handler that parses JSON of its own), or raise
\* another Exception
HandlerBehaviours == {"return", "raise_json", "raise"}

Event(ev, f) == [ev |-> ev, id |-> f.id, kind |-> f.kind]

\* the peer sends a frame while run_forever is in its receive loop (the
\* library reads it when the callback in progress, if any, has returned)
FrameArrives(kind) ==
    /\ frames_arrived < MaxFrames
    /\ conn_pc \in {"running", "in_handler"}
    /\ frames_arrived' = frames_arrived + 1
    /\ inbox' = Append(inbox, [id |-> frames_arrived + 1, app |-> app_created,
                                kind |-> kind])
    /\ UNCHANGED <<ws, connected, should_stop, lock, sock, conn_local, send_local,
                   disc_local, cur_frame, handlers_active, msg_log,
                   exec_vars, rx_vars>>

\* _on_message hands the frame to a handler running on a thread of its own
\* and returns at once
OnMessage_Detached ==
    /\ conn_pc = "running"
    /\ inbox # <<>>
    /\ LET f == Head(inbox) IN
        /\ inbox' = Tail(inbox)
        /\ IF f.kind = "malformed"
           THEN /\ msg_log' = msg_log \o <<Event("recv", f), Event("nonjson", f)>>
                /\ UNCHANGED <<cur_frame, handlers_active>>
           ELSE /\ msg_log' = msg_log \o <<Event("recv", f), Event("handler", f)>>
                /\ cur_frame' = f
                /\ handlers_active' = handlers_active + 1
        /\ UNCHANGED conn_pc
    /\ UNCHANGED <<ws, connected, should_stop, lock, sock, app_created, after_error,
                   mid_errors, on_connect_calls, on_disconnect_calls, on_error_calls,
                   send_local, disc_local, frames_arrived,
                   exec_vars, rx_vars>>

\* _on_message, lines 67-69 and 70-72: run_forever read the oldest unread
\* frame; json.loads either raises JSONDecodeError, which is printed, or
\* returns and the handler is called on this thread
OnMessage ==
    /\ conn_pc = "running"
    /\ inbox # <<>>
    /\ LET f == Head(inbox) IN
        /\ inbox' = Tail(inbox)
        /\ IF f.kind = "malformed"
           THEN /\ msg_log' = msg_log \o <<Event("recv", f), Event("nonjson", f)>>
                /\ UNCHANGED <<cur_frame, handlers_active, conn_pc>>
           ELSE /\ msg_log' = msg_log \o <<Event("recv", f), Event("handler", f)>>
                /\ cur_frame' = f
                /\ handlers_active' = handlers_active + 1
                /\ conn_pc' = "in_handler"
    /\ UNCHANGED <<ws, connected, should_stop, lock, sock, app_created, after_error,
                   mid_errors, on_connect_calls, on_disconnect_calls, on_error_calls,
                   send_local, disc_local, frames_arrived,
                   exec_vars, rx_vars>>

\* _on_message, lines 69-72: the handler ends.  JSONDecodeError raised by
\* the handler is caught by the same except clause as one raised by
\* json.loads; any other exception leaves _on_message and the library
\* reports it through _on_error, the connection staying open.
HandlerEnds(b) ==
    /\ conn_pc = "in_handler"
    /\ handlers_active' = handlers_active - 1
    /\ cur_frame' = NoFrame
    /\ CASE b = "return" ->
              /\ conn_pc' = "running"
              /\ UNCHANGED <<msg_log, after_error>>
         [] b = "raise_json" ->
              /\ msg_log' = Append(msg_log, Event("nonjson", cur_frame))
              /\ conn_pc' = "running"
              /\ UNCHANGED after_error
         [] b = "raise" ->
              /\ after_error' = "running"
              /\ conn_pc' = "error_acq"
              /\ UNCHANGED msg_log
    /\ UNCHANGED <<ws, connected, should_stop, lock, sock, app_created,
                   mid_errors, on_connect_calls, on_disconnect_calls, on_error_calls,
                   send_local, disc_local, inbox, frames_arrived,
                   exec_vars, rx_vars>>

\* the steps that receive frames
Receive ==
    \/ \E kind \in FrameKinds : FrameArrives(kind)
    \/ OnMessage
    \/ \E b \in HandlerBehaviours : HandlerEnds(b)

\* the steps of the thread running connect(), but for the faults the
\* transport reports on an open connection
ConnLoop ==
    \/ Connect
    \/ WhileCheck
    \/ CreateApp
    \/ RunForeverOpens
    \/ RunForeverFails
    \/ RunForeverRaises
    \/ OnOpenAcquire
    \/ OnOpenBody
    \/ OnOpenCallback
    \/ TransportCloses
    \/ TransportBreaks
    \/ OnErrorAcquire
    \/ OnErrorBody
    \/ OnErrorCallback
    \/ OnCloseAcquire
    \/ OnCloseBody
    \/ OnCloseCallback
    \/ AfterRun
    \/ Sleep

\* the steps of the thread running connect()
ConnThread == ConnLoop \/ MidError

\* the steps of the thread calling send()
SendThread ==
    \/ SendCall
    \/ IsConnectedAcquire
    \/ IsConnectedBody
    \/ SendAcquire
    \/ \E accepted \in BOOLEAN : SendBody(accepted)

\* the steps of the thread calling disconnect()
DiscThread ==
    \/ DisconnectCall
    \/ DisconnectAcquire
    \/ DisconnectBody

WSNext == ConnThread \/ SendThread \/ DiscThread

(***************************************************************************)
(* run.py: the message handler registered with the client.                 *)
(***************************************************************************)
\* the text carried by a text segment, or the whole message when it is a
\* plain string
SegTexts == { <<":", "h">>, <<"i">>, <<" ">> }

\* one element of a message list, a JSON object: has_type / has_data /
\* has_text say whether the keys "type", "data" and data["text"] are there
Segments ==
    { [has_type |-> TRUE, type |-> "text", has_data |-> TRUE, has_text |-> TRUE, text |-> t] :
          t \in SegTexts }
    \cup { [has_type |-> TRUE, type |-> "text", has_data |-> TRUE, has_text |-> FALSE,
             text |-> <<>>],
           [has_type |-> TRUE, type |-> "text", has_data |-> FALSE, has_text |-> FALSE,
             text |-> <<>>],
           [has_type |-> TRUE, type |-> "image", has_data |-> TRUE, has_text |-> FALSE,
             text |-> <<>>],
           [has_type |-> TRUE, type |-> "at", has_data |-> TRUE, has_text |-> TRUE,
             text |-> <<"i">>],
           [has_type |-> FALSE, type |-> "", has_data |-> TRUE, has_text |-> TRUE,
             text |-> <<"i">>] }

RECURSIVE SegmentLists(_)
SegmentLists(n) ==
    IF n = 0 THEN { <<>> }
    ELSE SegmentLists(n - 1)
         \cup { Append(l, m) : l \in {k \in SegmentLists(n - 1) : Len(k) = n - 1},
                                m \in Segments }

\* data["message"]: a list of segments or a plain string
Messages ==
    { [is_list |-> TRUE, segs |-> l, str |-> <<>>] : l \in SegmentLists(MaxSegments) }
    \cup { [is_list |-> FALSE, segs |-> <<>>, str |-> t] : t \in SegTexts }

\* the events the client hands to the handler
Events ==
    { [post_type |-> p, message_type |-> mt, has_group_id |-> g, message |-> m] :
          p \in {"message", "notice"}, mt \in {"group", "private"}, g \in BOOLEAN,
          m \in Messages }

\* line 147: ''.join([m['data']['text'] for m in message if m['type'] == 'text']);
\* m['type'] and m['data']['text'] raise KeyError when the key is missing
RECURSIVE JoinText(_)
JoinText(message) ==
    IF message = <<>> THEN [raised |-> FALSE, text |-> <<>>]
    ELSE LET m == Head(message)
             rest == JoinText(Tail(message))
         IN IF ~m.has_type THEN [raised |-> TRUE, text |-> <<>>]
            ELSE IF m.type # "text" THEN rest
            ELSE IF ~m.has_data \/ ~m.has_text THEN [raised |-> TRUE, text |-> <<>>]
            ELSE IF rest.raised THEN rest
            ELSE [raised |-> FALSE, text |-> m.text \o rest.text]

\* nothing extracted, nothing sent
Ignored ==
    [raised |-> FALSE, extracted |-> FALSE, joined |-> <<>>, text |-> <<>>,
     chat_text |-> <<>>, reply |-> "none"]

\* on_message(data), lines 135-167: what the handler extracts and whom it
\* answers ("group", "private", or "none" when it sends nothing)
on_message(data) ==
    IF data.post_type # "message" THEN Ignored
    ELSE LET j == IF data.message.is_list THEN JoinText(data.message.segs)
                  ELSE [raised |-> FALSE, text |-> data.message.str]
         IN IF j.raised THEN [Ignored EXCEPT !.raised = TRUE]
            ELSE LET text == Strip(j.text)
                     is_chat == text # <<>> /\ text[1] \in {":", "UFF1A"}
                     chat_text == IF is_chat THEN Strip(DropFirst(text, 1)) ELSE <<>>
                 IN [raised |-> FALSE, extracted |-> TRUE, joined |-> j.text,
                     text |-> text, chat_text |-> chat_text,
                     reply |-> IF chat_text = <<>> THEN "none"
                               ELSE IF data.message_type = "group" /\ data.has_group_id
                               THEN "group"
                               ELSE "private"]

NoEvent ==
    [post_type |-> "", message_type |-> "", has_group_id |-> FALSE,
     message |-> [is_list |-> FALSE, segs |-> <<>>, str |-> <<>>]]

RxInit ==
    /\ rx_pc = "idle"
    /\ rx_in = NoEvent
    /\ rx_out = Ignored

\* the client calls the handler with one event
OnMessageEvent(data) ==
    /\ rx_pc = "idle"
    /\ rx_in' = data
    /\ rx_out' = on_message(data)
    /\ rx_pc' = "done"
    /\ UNCHANGED <<exec_vars, ws_vars>>

RxNext == \E data \in Events : OnMessageEvent(data)

\* the gateway, the client and the handler as constructed
Init == ExecInit /\ WSInit /\ RxInit

\* execute_chat alone, on one outcome drawn from ClassifyOutcomes with
\* diagnostic logging configured, or from UnloggedOutcomes without
ClassifyInit ==
    /\ \/ \E outcome \in ClassifyOutcomes : GatewayInit(TRUE, outcome)
       \/ \E outcome \in UnloggedOutcomes : GatewayInit(FALSE, outcome)
    /\ WSInit
    /\ RxInit

ClassifySpec == ClassifyInit /\ [][ClassifyNext]_vars

\* the gateway alone: the client stays as constructed
ExecSpec == Init /\ [][ExecNext]_vars

\* the outcomes and callback behaviours of the calls made around shutdown():
\* a usable output or an overrun of the command, a callback that returns or
\* raises
ShutdownOutcomes ==
    {o \in ExecOutcomes : o.kind \in {"ok", "timeout"} /\ ~HasErrorKeyword(o.stdout)}
ShutdownCallbacks == {"return", "raise"}

\* the steps of the pool threads, and the steps of a caller inside
\* execute_chat_async after the submission
PoolSteps ==
    \/ \E w \in Workers : WorkerStart(w)
    \/ \E w \in Workers, o \in ShutdownOutcomes : WorkerFinish(w, o)
AsyncSteps ==
    \/ \E c \in Callers, b \in ShutdownCallbacks : ResultReady(c, b)
    \/ \E c \in Callers : WaitTimeout(c)
    \/ \E c \in Callers, b \in ShutdownCallbacks : ExceptTimeout(c, b)
    \/ \E c \in Callers, b \in ShutdownCallbacks : ExceptException(c, b)

\* calls of execute_chat_async and one call of shutdown()
ShutdownNext ==
    \/ \E c \in Callers : Submit(c)
    \/ PoolSteps
    \/ AsyncSteps
    \/ Shutdown

\* Pool threads keep running and every external command ends or is killed
\* at its deadline (subprocess.run with timeout); future.result returns or
\* times out, and a callback returns or raises.
ShutdownFairSpec ==
    /\ Init
    /\ [][ShutdownNext]_vars
    /\ WF_vars(PoolSteps)
    /\ WF_vars(AsyncSteps)

\* direct calls of execute_chat next to calls of execute_chat_async
PoolNext ==
    \/ \E c \in Callers : SyncBegin(c)
    \/ \E c \in Callers, o \in ShutdownOutcomes : SyncEnd(c, o)
    \/ \E c \in Callers : Submit(c)
    \/ PoolSteps
    \/ AsyncSteps
    \/ Shutdown

PoolFairSpec ==
    /\ Init
    /\ [][PoolNext]_vars
    /\ WF_vars(PoolSteps)
    /\ WF_vars(AsyncSteps)

\* the message handler alone, on one event
RxSpec == Init /\ [][RxNext]_vars

\* the client alone: the gateway stays as constructed
WSSpec == Init /\ [][WSNext]_vars

\* the client with frames arriving: connect(), the frames and disconnect();
\* the faults reported on an open connection are those of the handler
WSMsgNext == ConnLoop \/ Receive \/ DiscThread

WSMsgSpec == Init /\ [][WSMsgNext]_vars

\* a thread that holds the lock runs on to release it
SendHolds == IsConnectedBody \/ \E accepted \in BOOLEAN : SendBody(accepted)
DiscHolds == DisconnectBody

\* The thread running connect() keeps running, and every transport call it
\* makes returns (run_forever ends, sleep ends); a lock holder releases.
WSFairSpec ==
    /\ WSSpec
    /\ WF_vars(ConnThread)
    /\ WF_vars(SendHolds)
    /\ WF_vars(DiscHolds)

(***************************************************************************)
(* Properties of the execution gateway (ExecSpec).                         *)
(***************************************************************************)
AsyncFinished(c) == pc[c] = "async_done"

CallbackCount(c) == Len(cb_log[c])

RECURSIVE TotalCallbacks(_)
TotalCallbacks(n) == IF n = 0 THEN 0 ELSE CallbackCount(n) + TotalCallbacks(n - 1)

\* C1: every call of execute_chat_async invokes its callback exactly once:
\* never twice, and once by the time the call has ended, also when the
\* callback raises.
C1_CallbackExactlyOnce ==
    \A c \in Callers :
        /\ CallbackCount(c) <= 1
        /\ (AsyncFinished(c) /\ ~pool_shutdown) => CallbackCount(c) = 1

\* C2: execute_chat_async does not block its caller: when the unit of work
\* completes the call has already returned, and every callback invocation is
\* made by a pool thread.
C2_AsyncDoesNotBlock ==
    \A c \in Callers :
        /\ future[c].done => AsyncFinished(c)
        /\ \A i \in 1..Len(cb_log[c]) : cb_log[c][i].by[1] = "pool"

\* C3: no exception reaches a caller of execute_chat or execute_chat_async,
\* also after shutdown(), and every string returned or passed to a callback
\* is non-empty.
C3_NoFailureEscapes ==
    \A c \in Callers :
        /\ ~escaped[c]
        /\ pc[c] = "sync_done" => returned[c] # <<>>
        /\ \A i \in 1..Len(cb_log[c]) : cb_log[c][i].arg # <<>>

\* C4: when NumCallers > MAX_WORKER_THREADS calls of execute_chat_async have
\* been made on a running pool and all have ended, every callback has been
\* invoked and the number of invocations is NumCallers.
C4_AllCallbacksOnce ==
    (~pool_shutdown /\ \A c \in Callers : AsyncFinished(c))
        => /\ \A c \in Callers : CallbackCount(c) >= 1
           /\ TotalCallbacks(NumCallers) = NumCallers

(***************************************************************************)
(* Properties of the WebSocket session (WSSpec, WSFairSpec).               *)
(***************************************************************************)
\* C5 as stated: self.ws is non-null if and only if self.connected.
C5_HandleIffConnected == (ws # 0) <=> connected

\* C5, amended: whenever self.connected is True, self.ws is non-null.
C5_ConnectedHasHandle == connected => ws # 0

\* a connection is open and marked Connected while disconnect() is under way
C5_Witness == connected /\ ws # 0 /\ sock[ws] = "open" /\ should_stop

\* C6: a call of send() whose locked section runs while self.connected is
\* False returns False and writes nothing to the transport.
C6_NoSendWhileDisconnected ==
    (send_pc = "idle" /\ send_ret # "none" /\ ~conn_at_write)
        => (send_ret = "false" /\ frames_written = 0)

\* C7: send() returns True only when it wrote exactly one frame.
C7_TrueOnlyOnSuccess == send_ret = "true" => frames_written = 1

\* C8: disconnect() is idempotent: from every reachable state, a second
\* disconnect() right after a first leaves the state the first left (stop
\* flag set, not connected) and raises nothing; no call made has raised.
C8_DisconnectIdempotent ==
    LET once  == disconnect(ClientState)
        twice == disconnect(once)
    IN /\ ~once.raised
       /\ twice = once
       /\ once.should_stop /\ ~once.connected
       /\ ~disc_raised

\* disconnect() has been called twice and the state is the one a further
\* call would leave
C8_Witness ==
    /\ disc_calls = 2
    /\ disc_pc = "idle"
    /\ app_created >= 1
    /\ ws # 0
    /\ sock[ws] = "closed"
    /\ [should_stop |-> should_stop, connected |-> connected, ws |-> ws,
        sock |-> sock, raised |-> FALSE] = disconnect(ClientState)

\* C9: once disconnect() has set the stop flag while connect() is running,
\* connect() eventually returns (every transport call in progress returning).
C9_ConnectReturns == [](should_stop /\ conn_pc # "idle" => <>(conn_pc = "returned"))

\* connect() has returned after disconnect() interrupted a loop that had
\* opened and closed a connection
C9_Witness ==
    /\ conn_pc = "returned"
    /\ should_stop
    /\ on_connect_calls >= 1
    /\ on_disconnect_calls >= 1

\* C10: with the stop flag unset, every ended attempt (failed open, raise in
\* the loop, closed connection) has had the disconnect callback invoked
\* before the reconnect delay starts.
C10_FailureInvokesDisconnectCallback ==
    conn_pc = "sleep" => on_disconnect_calls = app_created

\* the transports that have opened so far
OpenedApps == {a \in Apps : sock[a] # "none"}

\* the thread running connect() is inside _on_open
InOnOpen == conn_pc \in {"open_acq", "open_body", "open_cb"}

\* C11: the on_connect callback is invoked once per transport that opened
\* (a failed attempt invokes none), and only after _on_open has set
\* self.connected: when it is about to be invoked and disconnect() has not
\* been called, is_connected() reads True.
C11_ConnectOncePerOpen ==
    /\ on_connect_calls = Cardinality(OpenedApps) - (IF InOnOpen THEN 1 ELSE 0)
    /\ (conn_pc = "open_cb" /\ ~should_stop) => connected

\* the first attempt failed to open, the second opened, and on_connect has
\* been invoked for it
C11_Witness ==
    /\ app_created = 2
    /\ sock[1] = "none"
    /\ sock[2] = "open"
    /\ on_error_calls >= 1
    /\ on_connect_calls = 1
    /\ conn_pc = "running"
    /\ connected
    /\ ~should_stop

(***************************************************************************)
(* Properties of the inbound dispatch (WSMsgSpec).                         *)
(***************************************************************************)
\* the events of kind ev logged for frame id
EventsOf(ev, id) == {i \in 1..Len(msg_log) : msg_log[i].ev = ev /\ msg_log[i].id = id}

\* C12: a frame that is not valid JSON is dropped without a handler
\* invocation and the connection stays as it was; a well-formed frame is
\* handed to the handler exactly once; and only a malformed frame is
\* reported as a non-JSON message.
C12_DispatchByWellFormedness ==
    /\ \A i \in 1..Len(msg_log) :
          /\ (msg_log[i].ev = "recv" /\ msg_log[i].kind = "malformed")
                => EventsOf("handler", msg_log[i].id) = {}
          /\ (msg_log[i].ev = "recv" /\ msg_log[i].kind = "json")
                => Cardinality(EventsOf("handler", msg_log[i].id)) = 1
          /\ msg_log[i].ev = "nonjson" => msg_log[i].kind = "malformed"
    /\ conn_pc = "in_handler" => cur_frame.kind = "json"

\* the ids of the frames handed to the handler, in the order of the calls
RECURSIVE HandlerIds(_)
HandlerIds(log) ==
    IF log = <<>> THEN <<>>
    ELSE (IF Head(log).ev = "handler" THEN <<Head(log).id>> ELSE <<>>)
         \o HandlerIds(Tail(log))

\* C13: frames reach the handler in their order of arrival, and at most one
\* invocation of the handler is in progress: the handler is not called for a
\* frame before it has ended for the frame before.
C13_InOrderOneAtATime ==
    /\ handlers_active <= 1
    /\ LET ids == HandlerIds(msg_log) IN
          \A i, j \in 1..Len(ids) : i < j => ids[i] < ids[j]

\* two frames arrived on one connection while the handler was busy with the
\* first, and the handler has been called for both
C13_Witness ==
    /\ Len(HandlerIds(msg_log)) = 2
    /\ handlers_active = 1
    /\ cur_frame.id = 2
    /\ cur_frame.app = 1

(***************************************************************************)
(* Properties of execute_chat on one outcome (ClassifySpec).               *)
(***************************************************************************)
\* the call of execute_chat has returned, the external command having run
ClassifiedOk == cl_pc # "idle" /\ cl_in.kind = "ok"

\* the text the classification is made on (after both filters)
CleanedText == CleanOutput(call_ai(cl_in))

OutputError == [ret |-> friendly_responses[1], log |-> "OUTPUT_ERROR"]

\* C14 as stated: a cleaned text of fewer than 5 characters that contains a
\* failure keyword, "bad" being one such text, is classified OUTPUT_ERROR.
C14_ShortKeywordIsError_Bad ==
    LET text == CleanedText IN
    (ClassifiedOk /\ Len(text) < 5 /\ (HasErrorKeyword(text) \/ text = Bad))
    => cl_out = OutputError

\* C14, amended: a cleaned text of fewer than 5 characters that contains one
\* of the six failure keywords is classified OUTPUT_ERROR and gets the
\* OUTPUT_ERROR fallback, never SHORT_OUTPUT; "bad" contains none of them and
\* is classified SHORT_OUTPUT.
C14_ShortKeywordIsError ==
    LET text == CleanedText IN
    /\ (ClassifiedOk /\ Len(text) < 5 /\ HasErrorKeyword(text))
          => cl_out = OutputError
    /\ (ClassifiedOk /\ text = Bad)
          => cl_out = [ret |-> friendly_responses[3], log |-> "SHORT_OUTPUT"]

\* the two-character keyword '错误' has been classified, after cleaning
C14_Witness ==
    /\ ClassifiedOk
    /\ cl_in.stdout # ShortKeyword
    /\ CleanedText = ShortKeyword
    /\ cl_out = OutputError

\* s holds a start marker with an end marker after it
MarkerPairIn(s) ==
    \E i \in 1..Len(s) :
        /\ MatchAt(s, i, ExecInfoStart)
        /\ \E j \in (i + Len(ExecInfoStart))..Len(s) : MatchAt(s, j, ExecInfoEnd)

\* the n characters of s from position k lie between a start marker and an
\* end marker
InsideRegion(s, k, n) ==
    /\ \E i \in 1..(k - Len(ExecInfoStart)) : MatchAt(s, i, ExecInfoStart)
    /\ \E j \in (k + n)..Len(s) : MatchAt(s, j, ExecInfoEnd)

\* every occurrence of MarkedContent in s lies in a marked region
ContentOnlyMarked(s) ==
    \A k \in 1..Len(s) :
        MatchAt(s, k, MarkedContent) => InsideRegion(s, k, Len(MarkedContent))

\* C15: when the raw output holds a marker pair, also one whose marker the
\* housekeeping notice splits, the result holds no marker pair, and it holds
\* no content that the output had only inside marked regions.
C15_MarkedRegionsRemoved ==
    LET raw == OAuth2Sub(cl_in.stdout) IN
    (ClassifiedOk /\ (MarkerPairIn(cl_in.stdout) \/ MarkerPairIn(raw)))
    => /\ ~MarkerPairIn(cl_out.ret)
       /\ ContentOnlyMarked(raw) => ~Contains(cl_out.ret, MarkedContent)

\* C16: a cleaned text of 5 characters or more without a failure keyword is
\* returned unchanged, and classifying the result again returns it again.
C16_UsableUnchangedIdempotent ==
    LET text == CleanedText IN
    (cl_pc = "again" /\ cl_in.kind = "ok" /\ Len(text) >= 5 /\ ~HasErrorKeyword(text))
    => /\ cl_out = [ret |-> text, log |-> ""]
       /\ cl_again = cl_out

WaitOverrunHandled(c) ==
    /\ pc[c] = "except_timeout"
    /\ cb_log[c] = <<>>
    /\ pc'[c] = "async_done"

\* C19 as stated: when the wait of execute_chat_async overruns its
\* deadline, the callback gets the string execute_chat returns when the
\* external command overruns its deadline.
C19_SameTimeoutString ==
    [][\A c \in Callers :
          WaitOverrunHandled(c) =>
              cb_log'[c] = <<Invocation(c, execute_chat([kind |-> "timeout", stdout |-> <<>>]).ret)>>]_vars

\* C19, amended: when the wait overruns its deadline the callback gets, once,
\* the message "处理超时，请稍后再试。", which is not the TIMEOUT fallback
\* execute_chat returns for an overrun of the external command.
C19_AsyncTimeoutMessage ==
    [][\A c \in Callers :
          WaitOverrunHandled(c) =>
              /\ cb_log'[c] = <<Invocation(c, AsyncTimeoutMessage)>>
              /\ AsyncTimeoutMessage # execute_chat([kind |-> "timeout", stdout |-> <<>>]).ret
              /\ execute_chat([kind |-> "timeout", stdout |-> <<>>]).ret = friendly_responses[4]]_vars

\* a call has ended whose wait overran while its unit of work had not
\* completed
C19_Witness ==
    \E c \in Callers :
        /\ pc[c] = "async_done"
        /\ ~future[c].done
        /\ ~escaped[c]
        /\ cb_log[c] = <<Invocation(c, AsyncTimeoutMessage)>>

\* execute_chat_async of caller c found the pool shut down: submit raised
Rejected(c) == pc[c] = "async_done" /\ escaped[c] /\ cb_log[c] = <<>>

\* C20: after shutdown() a later execute_chat_async starts no unit of work;
\* shutdown() leaves queued and running work alone and can return whatever
\* work there is; and every unit of work running once shutdown() has been
\* called completes and the callback of its call is invoked.
C20_ShutdownStopsNewWorkOnly ==
    /\ [](\A c \in Callers :
            ((pool_shutdown /\ pc[c] = "idle") \/ Rejected(c))
                => /\ \A i \in 1..Len(work_queue) : work_queue[i] # c
                   /\ c \notin Running
                   /\ ~future[c].done)
    /\ [](~pool_shutdown => ENABLED Shutdown)
    /\ [][(~pool_shutdown /\ pool_shutdown')
              => UNCHANGED <<work_queue, worker, future, pc, cb_log>>]_vars
    /\ \A c \in Callers :
          []((pool_shutdown /\ c \in Running)
                => <>(future[c].done /\ CallbackCount(c) >= 1))

\* shutdown() has returned while the unit of work of a call is running and
\* its caller waits, and a later call was rejected
C20_Witness ==
    \E c, d \in Callers :
        /\ pool_shutdown
        /\ c \in Running
        /\ pc[c] = "wait"
        /\ Rejected(d)

(***************************************************************************)
(* Properties of the worker pool (PoolFairSpec).                           *)
(***************************************************************************)
\* the calls whose external command is running on the caller's own thread
SyncRunning == {c \in Callers : pc[c] = "sync_run"}

InQueue(c) == \E i \in 1..Len(work_queue) : work_queue[i] = c

\* c calls execute_chat_async in this step
Submits(c) == pc[c] = "idle" /\ pc'[c] \notin {"idle", "sync_run"}

\* a queued unit of work leaves the queue only to be run, and it is run in
\* the end
QueuedIsExecuted ==
    /\ [][\A c \in Callers : (InQueue(c) /\ ~InQueue(c)') => (c \in Running)']_vars
    /\ \A c \in Callers : [](InQueue(c) => <>(future[c].done))

\* C21 as stated: the external commands running at the same time, whoever
\* started them, are never more than MAX_WORKER_THREADS; a submission is
\* queued and later executed.
C21_InvocationsBounded ==
    /\ [](Cardinality(Running) + Cardinality(SyncRunning) <= MAX_WORKER_THREADS)
    /\ [][\A c \in Callers : Submits(c) => (InQueue(c)' /\ ~escaped'[c])]_vars
    /\ QueuedIsExecuted

\* C21, amended: the external commands run by the pool for execute_chat_async
\* are never more than MAX_WORKER_THREADS (a direct call of execute_chat runs
\* its command on the caller's thread, outside the pool); a submission made
\* before shutdown() is queued, busy slots or not, and later executed.
C21_PoolInvocationsBounded ==
    /\ [](Cardinality(Running) <= MAX_WORKER_THREADS)
    /\ [][\A c \in Callers :
            (Submits(c) /\ ~pool_shutdown) => (InQueue(c)' /\ ~escaped'[c])]_vars
    /\ QueuedIsExecuted

\* every pool thread is busy and a further submission waits in the queue
C21_Witness ==
    /\ Cardinality(Running) = MAX_WORKER_THREADS
    /\ work_queue # <<>>
    /\ \A i \in 1..Len(work_queue) : pc[work_queue[i]] = "wait"

(***************************************************************************)
(* Properties of the message handler of run.py (RxSpec).                   *)
(***************************************************************************)
\* a segment with type "text" that carries a data.text field
CarriesText(m) == m.has_type /\ m.type = "text" /\ m.has_data /\ m.has_text

\* the data.text of the segments that carry one, in order
RECURSIVE TextOfSegments(_)
TextOfSegments(l) ==
    IF l = <<>> THEN <<>>
    ELSE (IF CarriesText(Head(l)) THEN Head(l).text ELSE <<>>) \o TextOfSegments(Tail(l))

\* the handler ran on a message event whose message is a list of segments
HandledList == rx_pc = "done" /\ rx_in.post_type = "message" /\ rx_in.message.is_list

\* C22: for every message given as a list of segments, the handler does not
\* raise and the text it extracts is the concatenation, in order, of the
\* data.text of exactly the text segments that carry one.
C22_TextOfTextSegments ==
    HandledList =>
        /\ ~rx_out.raised
        /\ rx_out.extracted
        /\ rx_out.joined = TextOfSegments(rx_in.message.segs)

(***************************************************************************)
(* Lock discipline of the client (WSSpec).                                 *)
(***************************************************************************)
\* the steps of each thread that read or write self.connected or self.ws:
\* connect() lines 151 and 161, the bodies of _on_open, _on_error and
\* _on_close; is_connected() and send(); disconnect()
ConnAccess ==
    /\ conn_pc \in {"create", "run", "open_body", "error_body", "close_body"}
    /\ conn_pc' # conn_pc
SendAccess == send_pc \in {"isconn_body", "send_body"} /\ send_pc' # send_pc
DiscAccess == disc_pc = "body" /\ disc_pc' # disc_pc

\* no thread is about to acquire the lock it holds
NoReentrantAcquire ==
    /\ lock = "conn" => conn_pc \notin {"open_acq", "error_acq", "close_acq"}
    /\ lock = "send" => send_pc \notin {"isconn_acq", "send_acq"}
    /\ lock = "disc" => disc_pc # "acq"

\* C23: every step that reads or writes connected or ws is taken by a thread
\* that holds _lock, and no thread acquires _lock while holding it.
C23_AccessUnderLock ==
    [][/\ ConnAccess => lock = "conn"
       /\ SendAccess => lock = "send"
       /\ DiscAccess => lock = "disc"
       /\ (ws' # ws \/ connected' # connected) => lock # "free"
       /\ NoReentrantAcquire]_vars

(***************************************************************************)
(* Finality of disconnect() (WSSpec).                                      *)
(***************************************************************************)
\* run_forever starts opening a transport in this step (line 161)
OpenAttempt == conn_pc = "run" /\ conn_pc' \in {"open_acq", "error_acq"}

\* C24: once a call of disconnect() has returned, no new attempt to open a
\* transport is started, connected does not become true again and the
\* on_connect callback is not invoked again.
C24_DisconnectFinal ==
    [][disc_calls >= 1 =>
          /\ ~OpenAttempt
          /\ connected' => connected
          /\ on_connect_calls' = on_connect_calls]_vars

====
